---- MODULE Spec2Model ----
(***************************************************************************)
(* Model of the hroma front end: the Lexer of src/src/lexer.rs and the     *)
(* recursive-descent Parser of src/src/parser.rs.                          *)
(*                                                                         *)
(* A character is a one-character string, a text is a sequence of          *)
(* characters.  A Token is a record [t |-> kind, v |-> payload] whose      *)
(* payload is always a sequence of characters: the word of an identifier,  *)
(* the text of a string literal, and for a number the canonical decimal    *)
(* numeral of the value that str::parse computes (see ParseI32, ParseF64). *)
(* A panic ends the program: status becomes "panicked" and err holds the   *)
(* message.                                                                *)
(***************************************************************************)
EXTENDS Integers, Sequences, FiniteSets, TLC

VARIABLES
    lexer,          \* the Lexer: [input, position, line, column]
    tok,            \* the Token the caller's last next_token call returned
    current_token,  \* Parser.current_token
    peek_token,     \* Parser.peek_token: <<>> is None, <<t>> is Some(t)
    stack,          \* the Parser's call stack, innermost frame last
    ret,            \* the value the last completed parser call returned
    advances,       \* history: completed Parser::advance calls
    asked,          \* history: Lexer::next_token calls made by the Parser
    calls,          \* history: parse() calls made by the caller
    status,         \* "running" | "panicked"
    err             \* the panic, NoErr while running

vars == <<lexer, tok, current_token, peek_token, stack, ret, advances, asked,
          calls, status, err>>

-----------------------------------------------------------------------------
(* Characters *)

NL == "\n"
SP == " "
Digits == {"0", "1", "2", "3", "4", "5", "6", "7", "8", "9"}
LowerLetters == {"a", "b", "c", "d", "e", "f", "g", "h", "i", "j", "k", "l", "m",
                 "n", "o", "p", "q", "r", "s", "t", "u", "v", "w", "x", "y", "z"}
UpperLetters == {"A", "B", "C", "D", "E", "F", "G", "H", "I", "J", "K", "L", "M",
                 "N", "O", "P", "Q", "R", "S", "T", "U", "V", "W", "X", "Y", "Z"}

is_ascii_digit(c) == c \in Digits
is_ascii_alphabetic(c) == c \in LowerLetters \cup UpperLetters
is_uppercase(c) == c \in UpperLetters
\* char::is_whitespace, on the ASCII characters
is_whitespace(c) == c \in {SP, NL, "\t", "\r"}

\* the text of a word, character by character
Chars(s) ==
    CASE s = "let" -> <<"l", "e", "t">>
      [] s = "type" -> <<"t", "y", "p", "e">>
      [] s = "match" -> <<"m", "a", "t", "c", "h">>
      [] s = "of" -> <<"o", "f">>
      [] s = "default" -> <<"d", "e", "f", "a", "u", "l", "t">>
      [] s = "Int" -> <<"I", "n", "t">>
      [] s = "Float" -> <<"F", "l", "o", "a", "t">>
      [] s = "String" -> <<"S", "t", "r", "i", "n", "g">>
      [] s = "let!" -> <<"l", "e", "t", "!">>
      [] s = "->" -> <<"-", ">">>
      [] s = "Bool" -> <<"B", "o", "o", "l">>
      [] OTHER -> <<s>>

-----------------------------------------------------------------------------
(* Tokens and errors *)

Tok(t, v) == [t |-> t, v |-> v]
EOI == Tok("EOI", <<>>)
Punct(t) == Tok(t, <<>>)

NoTok == Tok("none", <<>>)
NoErr == [kind |-> "none", ch |-> "", line |-> 0, column |-> 0]
Panic(kind, ch, line, column) ==
    [kind |-> kind, ch |-> ch, line |-> line, column |-> column]

\* what a Lexer call hands back: the Lexer after it, the Token, and the panic
LexResult(L, t, e) == [lexer |-> L, tok |-> t, err |-> e]

-----------------------------------------------------------------------------
(* Lexer *)

Lexer_new(input) == [input |-> input, position |-> 0, line |-> 1, column |-> 1]

AtEnd(L) == L.position >= Len(L.input)
\* self.input[self.position]
Cur(L) == L.input[L.position + 1]

Lexer_advance(L) ==
    IF L.position < Len(L.input) /\ Cur(L) = NL
    THEN [L EXCEPT !.line = @ + 1, !.column = 1, !.position = @ + 1]
    ELSE [L EXCEPT !.column = @ + 1, !.position = @ + 1]

\* '\0' is modelled by the empty string
Lexer_peek(L) ==
    IF L.position + 1 < Len(L.input) THEN L.input[L.position + 2] ELSE ""

\* a bug that takes a comment to be the '#' alone
SkipLine_OneChar(L) == Lexer_advance(L)

RECURSIVE SkipLine(_)
\* the inner loop of skip_whitespace: to the next newline, exclusive
SkipLine(L) ==
    IF L.position < Len(L.input) /\ Cur(L) # NL
    THEN SkipLine(Lexer_advance(L))
    ELSE L

RECURSIVE skip_whitespace(_)
skip_whitespace(L) ==
    IF L.position < Len(L.input)
    THEN IF is_whitespace(Cur(L)) THEN skip_whitespace(Lexer_advance(L))
         ELSE IF Cur(L) = "#" THEN skip_whitespace(SkipLine(L))
         ELSE L
    ELSE L

RECURSIVE SkipDigits(_)
SkipDigits(L) ==
    IF L.position < Len(L.input) /\ is_ascii_digit(Cur(L))
    THEN SkipDigits(Lexer_advance(L))
    ELSE L

\* self.input[start..self.position]
Slice(L, start) == SubSeq(L.input, start + 1, L.position)

RECURSIVE StripLeadingZeros(_)
StripLeadingZeros(s) ==
    IF Len(s) > 1 /\ s[1] = "0" THEN StripLeadingZeros(Tail(s)) ELSE s

RECURSIVE StripTrailingZeros(_)
StripTrailingZeros(s) ==
    IF Len(s) > 0 /\ s[Len(s)] = "0"
    THEN StripTrailingZeros(SubSeq(s, 1, Len(s) - 1))
    ELSE s

DigitValue(c) ==
    CASE c = "0" -> 0 [] c = "1" -> 1 [] c = "2" -> 2 [] c = "3" -> 3
      [] c = "4" -> 4 [] c = "5" -> 5 [] c = "6" -> 6 [] c = "7" -> 7
      [] c = "8" -> 8 [] c = "9" -> 9

\* i32::MAX, as a numeral
I32MaxDigits == <<"2", "1", "4", "7", "4", "8", "3", "6", "4", "7">>

RECURSIVE NumeralLeq(_, _)
\* a <= b for two numerals of the same length
NumeralLeq(a, b) ==
    IF a = <<>> THEN TRUE
    ELSE IF DigitValue(a[1]) < DigitValue(b[1]) THEN TRUE
    ELSE IF DigitValue(a[1]) > DigitValue(b[1]) THEN FALSE
    ELSE NumeralLeq(Tail(a), Tail(b))

FitsI32(s) ==
    LET n == StripLeadingZeros(s)
    IN  \/ Len(n) < Len(I32MaxDigits)
        \/ Len(n) = Len(I32MaxDigits) /\ NumeralLeq(n, I32MaxDigits)

\* str::parse::<i32> on a non-empty run of digits: the value, as its canonical
\* numeral; the caller's unwrap panics when the value does not fit
ParseI32(s) == StripLeadingZeros(s)

\* str::parse::<f64> on digits '.' digits: the value, as its canonical decimal
\* numeral (no leading zeros, no trailing fractional zeros).  "42." is accepted
\* by Rust's float grammar and is 42.0.  Exact up to 15 significant digits.
ParseF64(ip, fp) == StripLeadingZeros(ip) \o <<".">> \o StripTrailingZeros(fp)

\* a bug that takes a run for a float only when a digit follows the '.'
read_number_NeedsFraction(L) ==
    LET start == L.position
        a == SkipDigits(L)
    IN  IF a.position + 1 < Len(a.input) /\ Cur(a) = "."
           /\ is_ascii_digit(a.input[a.position + 2])
        THEN LET b == SkipDigits(Lexer_advance(a))
             IN  LexResult(b,
                           Tok("FloatLiteral",
                               ParseF64(Slice(a, start), Slice(b, a.position + 1))),
                           NoErr)
        ELSE IF FitsI32(Slice(a, start))
             THEN LexResult(a, Tok("IntegerLiteral", ParseI32(Slice(a, start))), NoErr)
             ELSE LexResult(a, NoTok, Panic("ParseIntError", "", a.line, a.column))

read_number(L) ==
    LET start == L.position
        a == SkipDigits(L)
    IN  IF a.position < Len(a.input) /\ Cur(a) = "."
        THEN LET b == SkipDigits(Lexer_advance(a))
             IN  LexResult(b,
                           Tok("FloatLiteral",
                               ParseF64(Slice(a, start), Slice(b, a.position + 1))),
                           NoErr)
        ELSE IF FitsI32(Slice(a, start))
             THEN LexResult(a, Tok("IntegerLiteral", ParseI32(Slice(a, start))), NoErr)
             ELSE LexResult(a, NoTok, Panic("ParseIntError", "", a.line, a.column))

RECURSIVE SkipWord(_)
SkipWord(L) ==
    IF L.position < Len(L.input)
       /\ (is_ascii_alphabetic(Cur(L)) \/ Cur(L) = "_" \/ is_ascii_digit(Cur(L)))
    THEN SkipWord(Lexer_advance(L))
    ELSE L

\* the match on the word at the end of read_word
Keyword(word) ==
    CASE word = Chars("let") -> Punct("KeywordLet")
      [] word = Chars("type") -> Punct("KeywordType")
      [] word = Chars("match") -> Punct("KeywordMatch")
      [] word = Chars("of") -> Punct("KeywordOf")
      [] word = Chars("default") -> Punct("KeywordDefault")
      [] OTHER -> IF is_uppercase(word[1])
                  THEN Tok("TypeIdent", word)
                  ELSE Tok("Ident", word)

\* a bug that skips blanks between `let` and `!`
read_word_BlankBeforeBang(L) ==
    LET start == L.position
        a == SkipWord(L)
        word == Slice(a, start)
        b == skip_whitespace(a)
    IN  IF word = Chars("let") /\ b.position < Len(b.input) /\ Cur(b) = "!"
        THEN LexResult(Lexer_advance(b), Punct("KeywordLetBang"), NoErr)
        ELSE LexResult(a, Keyword(word), NoErr)

read_word(L) ==
    LET start == L.position
        a == SkipWord(L)
        word == Slice(a, start)
    IN  IF word = Chars("let") /\ a.position < Len(a.input) /\ Cur(a) = "!"
        THEN LexResult(Lexer_advance(a), Punct("KeywordLetBang"), NoErr)
        ELSE LexResult(a, Keyword(word), NoErr)

RECURSIVE SkipString(_)
SkipString(L) ==
    IF L.position < Len(L.input) /\ Cur(L) # "\""
    THEN SkipString(Lexer_advance(L))
    ELSE L

read_string(L) ==
    LET o == Lexer_advance(L)
        start == o.position
        a == SkipString(o)
        s == Slice(a, start)
    IN  LexResult(IF a.position < Len(a.input) THEN Lexer_advance(a) ELSE a,
                  Tok("StringLiteral", s), NoErr)

\* the '!' arm: self.advance() runs before the message reads line and column
BangArm(L) ==
    LET a == Lexer_advance(L)
    IN  LexResult(a, NoTok, Panic("UnexpectedChar", "!", a.line, a.column))

\* the single-character arms
One(L, t) == LexResult(Lexer_advance(L), Punct(t), NoErr)

\* a bug that keeps moving the cursor once the text is exhausted
EndOfInput_Advancing(L) == LexResult(Lexer_advance(L), EOI, NoErr)

\* the early return of next_token at the end of the text
EndOfInput(L) == LexResult(L, EOI, NoErr)

next_token(L0) ==
    LET L == skip_whitespace(L0)
    IN  IF L.position >= Len(L.input) THEN EndOfInput(L)
        ELSE LET c == Cur(L)
             IN  CASE is_ascii_digit(c) -> read_number(L)
                   [] is_ascii_alphabetic(c) -> read_word(L)
                   [] c = "=" -> One(L, "Equal")
                   [] c = ":" -> One(L, "Colon")
                   [] c = "-" /\ Lexer_peek(L) = ">" ->
                        LexResult(Lexer_advance(Lexer_advance(L)), Punct("Arrow"), NoErr)
                   [] c = "{" -> One(L, "LeftCurly")
                   [] c = "}" -> One(L, "RightCurly")
                   [] c = "(" -> One(L, "LeftParen")
                   [] c = ")" -> One(L, "RightParen")
                   [] c = "," -> One(L, "Comma")
                   [] c = "_" -> One(L, "Underscore")
                   [] c = "!" -> BangArm(L)
                   [] c = "\"" -> read_string(L)
                   [] OTHER ->
                        LexResult(L, NoTok, Panic("UnexpectedChar", c, L.line, L.column))

-----------------------------------------------------------------------------
(* Parser: the values it builds *)

\* enum Expr; the name of a Call and the value of a literal are both in v
CallExpr(name, args) == [e |-> "Call", v |-> name, args |-> args]
LiteralExpr(t) ==
    [e |-> CASE t.t = "IntegerLiteral" -> "IntLiteral"
             [] t.t = "FloatLiteral" -> "FloatLiteral"
             [] t.t = "StringLiteral" -> "StringLiteral",
     v |-> t.v, args |-> <<>>]

\* enum Function
FunctionNode(is_nonlin, name, params, body, return_expr) ==
    [tag |-> IF is_nonlin THEN "NonlinFunc" ELSE "LinFunc", name |-> name,
     params |-> params, body |-> body, return_expr |-> return_expr]

\* the tuple parse_function_body and parse_lambda_style return
Triple(params, body, return_expr) ==
    [params |-> params, body |-> body, return_expr |-> return_expr]

IsLiteral(t) == t.t \in {"IntegerLiteral", "FloatLiteral", "StringLiteral"}

-----------------------------------------------------------------------------
(* Parser: the machine.  A machine m holds the Parser's fields, its call     *)
(* stack and the panic; every operation below maps a machine to the machine  *)
(* after it.                                                                 *)

Machine(L) ==
    [lexer |-> L, current_token |-> NoTok, peek_token |-> <<>>, stack |-> <<>>,
     ret |-> <<>>, advances |-> 0, asked |-> 0, calls |-> 0,
     status |-> "running", err |-> NoErr]

\* the rest of a function runs only if nothing before it panicked
Then(m, rest(_)) == IF m.status = "running" THEN rest(m) ELSE m

Fail(m, kind) == [m EXCEPT !.status = "panicked", !.err = Panic(kind, "", 0, 0)]

Top(m) == m.stack[Len(m.stack)]
SetTop(m, f) == [m EXCEPT !.stack[Len(m.stack)] = f]
SetPc(m, pc) == [m EXCEPT !.stack[Len(m.stack)].pc = pc]
\* a call pushes the callee's frame, a return pops it and leaves the value
Call(m, f) == [m EXCEPT !.stack = Append(@, f)]
Return(m, v) == [m EXCEPT !.stack = SubSeq(@, 1, Len(@) - 1), !.ret = v]

ParseFrame == [fn |-> "parse", pc |-> "loop", functions |-> <<>>]
FunctionFrame ==
    [fn |-> "parse_function", pc |-> "start", is_nonlin |-> FALSE, name |-> <<>>]
BodyFrame ==
    [fn |-> "parse_function_body", pc |-> "start", body |-> <<>>, return_expr |-> <<>>]
LambdaFrame == [fn |-> "parse_lambda_style", pc |-> "param", params |-> <<>>]
ExprFrame == [fn |-> "parse_expr", pc |-> "start", name |-> <<>>, args |-> <<>>]

\* a bug that refills the buffer without handing the buffered token on
Parser_advance_DropsPeek(m) ==
    LET r == next_token(m.lexer)
    IN  IF r.err # NoErr
        THEN [m EXCEPT !.lexer = r.lexer, !.asked = @ + 1,
                       !.status = "panicked", !.err = r.err]
        ELSE [m EXCEPT !.current_token = r.tok, !.lexer = r.lexer,
                       !.asked = @ + 1, !.advances = @ + 1]

Parser_advance(m) ==
    LET cur == IF m.peek_token = <<>> THEN EOI ELSE m.peek_token[1]
        r == next_token(m.lexer)
    IN  IF r.err # NoErr
        THEN [m EXCEPT !.current_token = cur, !.peek_token = <<>>,
                       !.lexer = r.lexer, !.asked = @ + 1,
                       !.status = "panicked", !.err = r.err]
        ELSE [m EXCEPT !.current_token = cur, !.peek_token = <<r.tok>>,
                       !.lexer = r.lexer, !.asked = @ + 1, !.advances = @ + 1]

expect(m, expected) ==
    IF m.current_token # expected THEN Fail(m, "ExpectedToken") ELSE Parser_advance(m)

parse_ident(m) ==
    IF m.current_token.t = "Ident" THEN Parser_advance(m)
    ELSE Fail(m, "ExpectedIdentifier")

TypeNames == {"Int", "Float", "String"}
parse_type(m) ==
    IF m.current_token.t = "TypeIdent"
       /\ \E n \in TypeNames : m.current_token.v = Chars(n)
    THEN Parser_advance(m)
    ELSE Fail(m, "ExpectedType")
\* the Type that parse_type returns for the token it accepted
TypeOf(t) == CHOOSE n \in TypeNames : t.v = Chars(n)

\* a literal arm: std::mem::replace(&mut self.current_token, Token::EOI), then
\* self.advance()
TakeLiteral(m) == Parser_advance([m EXCEPT !.current_token = EOI])

Parser_new(L) ==
    LET r1 == next_token(L)
        r2 == next_token(r1.lexer)
        m == Machine(L)
    IN  IF r1.err # NoErr
        THEN [m EXCEPT !.lexer = r1.lexer, !.asked = 1,
                       !.status = "panicked", !.err = r1.err]
        ELSE IF r2.err # NoErr
        THEN [m EXCEPT !.lexer = r2.lexer, !.asked = 2,
                       !.status = "panicked", !.err = r2.err]
        ELSE [m EXCEPT !.lexer = r2.lexer, !.asked = 2,
                       !.current_token = r1.tok, !.peek_token = <<r2.tok>>]

\* parser.parse() is called
parse_enter(m) == [m EXCEPT !.stack = <<ParseFrame>>, !.calls = @ + 1]

\* parse: the head of the while loop
parse_loop(m) ==
    IF m.current_token # EOI
    THEN Call(SetPc(m, "push"), FunctionFrame)
    ELSE Return(m, Top(m).functions)

\* parse: functions.push(..)
parse_push(m) ==
    SetTop(m, [Top(m) EXCEPT !.functions = Append(@, m.ret), !.pc = "loop"])

\* parse_function, up to the call of parse_function_body
parse_function_head(m) ==
    LET is_nonlin == m.current_token = Punct("KeywordLetBang")
        a == Parser_advance(m)
        b == Then(a, parse_ident)
        c == Then(b, LAMBDA x : expect(x, Punct("Equal")))
    IN  Then(c, LAMBDA x :
            Call(SetTop(x, [Top(x) EXCEPT !.pc = "body", !.is_nonlin = is_nonlin,
                                          !.name = a.current_token.v]),
                 BodyFrame))

\* parse_function, from the return of parse_function_body
parse_function_build(m) ==
    Return(m, FunctionNode(Top(m).is_nonlin, Top(m).name,
                           m.ret.params, m.ret.body, m.ret.return_expr))

\* a bug that takes every body that starts with an identifier for a lambda
IsLambdaStart_IdentOnly(m) == m.current_token.t = "Ident"

\* parse_function_body: the test for the lambda syntax
IsLambdaStart(m) ==
    m.current_token.t = "Ident" /\ m.peek_token = <<Punct("Colon")>>

\* parse_function_body: which arm it takes
BodyKind(m) ==
    IF IsLambdaStart(m) THEN "lambda"
    ELSE IF IsLiteral(m.current_token) THEN "literal"
    ELSE IF m.current_token = Punct("LeftCurly") THEN "block"
    ELSE "expr"

body_lambda(m) == Call(SetPc(m, "lambda"), LambdaFrame)
body_lambda_return(m) == Return(m, m.ret)

body_literal(m) ==
    LET lit == LiteralExpr(m.current_token)
    IN  Then(TakeLiteral(m), LAMBDA x : Return(x, Triple(<<>>, <<>>, <<lit>>)))

body_block_open(m) ==
    Then(expect(m, Punct("LeftCurly")), LAMBDA x : SetPc(x, "block_loop"))

body_expr(m) == Call(SetPc(m, "expr"), ExprFrame)
body_expr_return(m) == Return(m, Triple(<<>>, <<>>, <<m.ret>>))

\* the block loop: what the head of the while loop and the if decide
BlockKind(m) ==
    IF m.current_token \in {Punct("RightCurly"), EOI} THEN "close"
    ELSE IF m.current_token \in {Punct("KeywordLet"), Punct("KeywordLetBang")}
    THEN "function"
    ELSE "expr"

\* a bug that takes the end of the text for the end of the block
block_close_Silent(m) ==
    IF m.current_token = EOI
    THEN Return(m, Triple(<<>>, Top(m).body, Top(m).return_expr))
    ELSE Then(expect(m, Punct("RightCurly")), LAMBDA x :
              Return(x, Triple(<<>>, Top(m).body, Top(m).return_expr)))

\* the block loop is left: self.expect(Token::RightCurly)
block_close(m) ==
    Then(expect(m, Punct("RightCurly")), LAMBDA x :
         Return(x, Triple(<<>>, Top(m).body, Top(m).return_expr)))

block_function(m) == Call(SetPc(m, "block_fn"), FunctionFrame)
block_push_function(m) ==
    SetTop(m, [Top(m) EXCEPT !.body = Append(@, m.ret), !.pc = "block_loop"])

block_expr(m) == Call(SetPc(m, "block_expr"), ExprFrame)
block_push_expr(m) ==
    SetTop(m, [Top(m) EXCEPT !.return_expr = Append(@, m.ret), !.pc = "block_loop"])

\* parse_lambda_style: one turn of the parameter loop, and what follows the loop
\* up to the call of parse_expr
lambda_param(m) ==
    LET a == parse_ident(m)
        b == Then(a, LAMBDA x : expect(x, Punct("Colon")))
        c == Then(b, parse_type)
    IN  Then(c, LAMBDA x :
            LET y == SetTop(x, [Top(x) EXCEPT !.params =
                                   Append(@, <<m.current_token.v, TypeOf(b.current_token)>>)])
            IN  IF x.current_token = Punct("Comma") THEN Parser_advance(y)
                ELSE IF x.current_token = Punct("Arrow")
                THEN Then(expect(y, Punct("Arrow")), LAMBDA z :
                          Call(SetPc(z, "expr"), ExprFrame))
                ELSE Fail(y, "ExpectedCommaOrArrow"))

lambda_return(m) == Return(m, Triple(Top(m).params, <<>>, <<m.ret>>))

\* parse_expr: which arm it takes
ExprKind(m) ==
    IF m.current_token.t = "Ident" THEN "ident"
    ELSE IF IsLiteral(m.current_token) THEN "literal"
    ELSE "unexpected"

expr_ident(m) ==
    LET name == m.current_token.v
    IN  Then(Parser_advance(m), LAMBDA x :
            IF x.current_token = Punct("LeftParen")
            THEN Then(Parser_advance(x), LAMBDA y :
                      SetTop(y, [Top(y) EXCEPT !.pc = "arg_loop", !.name = name]))
            ELSE Return(x, CallExpr(name, <<>>)))

expr_literal(m) ==
    LET lit == LiteralExpr(m.current_token)
    IN  Then(TakeLiteral(m), LAMBDA x : Return(x, lit))

\* a bug that recovers from an unexpected token with an empty expression and
\* leaves the token where it is
expr_unexpected_Recovers(m) == Return(m, CallExpr(<<>>, <<>>))

expr_unexpected(m) == Fail(m, "UnexpectedToken")

\* the argument loop: its head
args_next(m) == Call(SetPc(m, "arg"), ExprFrame)
args_close(m) ==
    Then(expect(m, Punct("RightParen")), LAMBDA x :
         Return(x, CallExpr(Top(m).name, Top(m).args)))

\* a bug that insists on a comma between two arguments
args_push_CommaRequired(m) ==
    LET y == SetTop(m, [Top(m) EXCEPT !.args = Append(@, m.ret), !.pc = "arg_loop"])
    IN  IF m.current_token = Punct("RightParen") THEN y
        ELSE expect(y, Punct("Comma"))

\* the argument loop: args.push(..) and the comma
args_push(m) ==
    LET y == SetTop(m, [Top(m) EXCEPT !.args = Append(@, m.ret), !.pc = "arg_loop"])
    IN  IF m.current_token = Punct("Comma") THEN Parser_advance(y) ELSE y

\* where the Parser is: the function and the place in it, with the arm it is
\* about to take
Place(m) ==
    IF m.stack = <<>> THEN <<"caller", "", "">>
    ELSE LET f == Top(m)
         IN  <<f.fn, f.pc,
               CASE f.fn = "parse_function_body" /\ f.pc = "start" -> BodyKind(m)
                 [] f.fn = "parse_function_body" /\ f.pc = "block_loop" -> BlockKind(m)
                 [] f.fn = "parse_expr" /\ f.pc = "start" -> ExprKind(m)
                 [] f.fn = "parse_expr" /\ f.pc = "arg_loop" ->
                      IF m.current_token # Punct("RightParen") THEN "next" ELSE "close"
                 [] OTHER -> "">>

\* the next step of a running Parser inside parse()
Step(m) ==
    LET at == Place(m)
    IN  CASE at = <<"parse", "loop", "">> -> parse_loop(m)
          [] at = <<"parse", "push", "">> -> parse_push(m)
          [] at = <<"parse_function", "start", "">> -> parse_function_head(m)
          [] at = <<"parse_function", "body", "">> -> parse_function_build(m)
          [] at = <<"parse_function_body", "start", "lambda">> -> body_lambda(m)
          [] at = <<"parse_function_body", "start", "literal">> -> body_literal(m)
          [] at = <<"parse_function_body", "start", "block">> -> body_block_open(m)
          [] at = <<"parse_function_body", "start", "expr">> -> body_expr(m)
          [] at = <<"parse_function_body", "lambda", "">> -> body_lambda_return(m)
          [] at = <<"parse_function_body", "expr", "">> -> body_expr_return(m)
          [] at = <<"parse_function_body", "block_loop", "close">> -> block_close(m)
          [] at = <<"parse_function_body", "block_loop", "function">> -> block_function(m)
          [] at = <<"parse_function_body", "block_loop", "expr">> -> block_expr(m)
          [] at = <<"parse_function_body", "block_fn", "">> -> block_push_function(m)
          [] at = <<"parse_function_body", "block_expr", "">> -> block_push_expr(m)
          [] at = <<"parse_lambda_style", "param", "">> -> lambda_param(m)
          [] at = <<"parse_lambda_style", "expr", "">> -> lambda_return(m)
          [] at = <<"parse_expr", "start", "ident">> -> expr_ident(m)
          [] at = <<"parse_expr", "start", "literal">> -> expr_literal(m)
          [] at = <<"parse_expr", "start", "unexpected">> -> expr_unexpected(m)
          [] at = <<"parse_expr", "arg_loop", "next">> -> args_next(m)
          [] at = <<"parse_expr", "arg_loop", "close">> -> args_close(m)
          [] at = <<"parse_expr", "arg", "">> -> args_push(m)

RECURSIVE RunParse(_)
\* parse() run to its return or to the panic
RunParse(m) ==
    IF m.status # "running" \/ m.stack = <<>> THEN m ELSE RunParse(Step(m))

\* Parser::new(Lexer::new(input)).parse()
ParseText(input) ==
    Then(Parser_new(Lexer_new(input)), LAMBDA m : RunParse(parse_enter(m)))

-----------------------------------------------------------------------------
(* The program texts the specifications start from *)

\* the longest text is MaxLen pieces long
MaxLen == 4

RECURSIVE Texts(_, _)
\* the concatenations of at most n pieces
Texts(pieces, n) ==
    IF n = 0 THEN {<<>>}
    ELSE LET shorter == Texts(pieces, n - 1)
         IN  shorter \cup {s \o p : s \in shorter, p \in pieces}

\* the caller stops asking once the end of the text must have been seen twice
CallBudget(L) == Len(L.input) + 2

\* no Parser has been constructed
NoParser ==
    /\ current_token = NoTok
    /\ peek_token = <<>>
    /\ stack = <<>>
    /\ advances = 0
    /\ calls = 0

InitOver(texts) ==
    /\ lexer \in {Lexer_new(t) : t \in texts}
    /\ tok = NoTok
    /\ asked = 0
    /\ status = "running"
    /\ err = NoErr
    /\ ret = <<>>
    /\ NoParser

\* every character class that next_token tells apart
LexPieces == {<<"a">>, <<SP>>, <<NL>>, <<"#">>, <<"!">>, <<"-">>, <<">">>, <<"@">>}
\* words around `let` and `!`
LetPieces == {Chars("let"), <<"l">>, <<"x">>, <<"!">>, <<SP>>}
\* runs of digits up to and beyond i32::MAX, and `.`
NumPieces == {I32MaxDigits, <<"2", "1", "4", "7", "4", "8", "3", "6", "4", "8">>,
              <<"0">>, <<"4">>, <<"2">>, <<".">>, <<SP>>}
\* comments, strings and what surrounds them
CommentPieces == {<<"a">>, <<SP>>, <<NL>>, <<"#">>, <<"#", "a">>, <<"\"">>}

\* a call has at most MaxArgs arguments, a block at most MaxItems items
MaxArgs == 2
MaxItems == 2

\* a lexeme is the text of one token; a program is a sequence of lexemes
Lx(s) == <<Chars(s)>>

RECURSIVE Join(_)
\* the text of a program: its lexemes, one blank between two
Join(p) ==
    IF p = <<>> THEN <<>>
    ELSE IF Len(p) = 1 THEN p[1]
    ELSE p[1] \o <<SP>> \o Join(Tail(p))

Atoms == {Lx("5"), Lx("a")}

RECURSIVE ArgLists(_)
\* at most n arguments, with a comma or nothing before each
ArgLists(n) ==
    IF n = 0 THEN {<<>>}
    ELSE LET shorter == ArgLists(n - 1)
         IN  shorter \cup {l \o sep \o a : l \in shorter, sep \in {<<>>, Lx(",")},
                                             a \in Atoms}

Calls ==
    {Lx("f") \o Lx("(") \o l \o Lx(")") : l \in ArgLists(MaxArgs)}
    \cup {Lx("f") \o Lx("(") \o Lx("f") \o Lx("(") \o Lx("a") \o Lx(")")
                  \o sep \o Lx("5") \o Lx(",") \o Lx(")") : sep \in {<<>>, Lx(",")}}

ParamLists ==
    {Lx("a") \o Lx(":") \o Lx(t) : t \in {"Int", "Bool", "a"}}
    \cup {Lx("a") \o Lx(":") \o Lx("Float") \o sep \o Lx("b") \o Lx(":") \o Lx("String")
            : sep \in {<<>>, Lx(",")}}

Lambdas ==
    {ps \o Lx("->") \o e : ps \in ParamLists,
                           e \in Atoms \cup {Lx("f") \o Lx("(") \o Lx("a") \o Lx(")")}}

Literals == {<< <<"1", ".", "5">> >>, << <<"\"", "s", "\"">> >>}

\* what a block holds: bindings of its own, one of them a block again, and
\* expressions
BlockItems ==
    {Lx("let") \o Lx("g") \o Lx("=") \o Lx("5"),
     Lx("let!") \o Lx("g") \o Lx("=") \o Lx("a") \o Lx(":") \o Lx("Int") \o Lx("->") \o Lx("a"),
     Lx("let") \o Lx("g") \o Lx("=") \o Lx("{") \o Lx("let") \o Lx("h") \o Lx("=")
         \o Lx("5") \o Lx("}"),
     Lx("a"),
     Lx("f") \o Lx("(") \o Lx("a") \o Lx(")")}

RECURSIVE ItemLists(_)
ItemLists(n) ==
    IF n = 0 THEN {<<>>}
    ELSE LET shorter == ItemLists(n - 1)
         IN  shorter \cup {l \o i : l \in shorter, i \in BlockItems}

Blocks == {Lx("{") \o l \o Lx("}") : l \in ItemLists(MaxItems)}

Bodies == Atoms \cup Calls \cup Lambdas \cup Literals \cup Blocks

\* a definition, with a binding keyword or something else in its place
Definitions ==
    {h \o Lx("f") \o Lx("=") \o b : h \in {Lx("let"), Lx("let!"), Lx("x"), Lx("{")},
                                    b \in Bodies}

Programs ==
    Definitions
    \cup {Lx("let") \o Lx("f") \o Lx("=") \o b \o h \o Lx("g") \o Lx("=") \o Lx("a")
            : b \in {Lx("5"), Lx("a"), Lx("{") \o Lx("}")},
              h \in {Lx("let"), Lx("let!"), Lx("x")}}

\* every program, and every program cut short
ProgramTexts == UNION {{Join(SubSeq(p, 1, n)) : n \in 0..Len(p)} : p \in Programs}

Init == InitOver(Texts(LexPieces, MaxLen))
InitParser == InitOver(ProgramTexts)
InitLet == InitOver(Texts(LetPieces, MaxLen))
InitNum == InitOver(Texts(NumPieces, MaxLen))
InitComment == InitOver(Texts(CommentPieces, MaxLen))

-----------------------------------------------------------------------------
(* The caller of a bare Lexer *)

\* lexer.next_token()
NextToken ==
    /\ status = "running"
    /\ NoParser
    /\ asked < CallBudget(lexer)
    /\ LET r == next_token(lexer)
       IN  /\ lexer' = r.lexer
           /\ tok' = r.tok
           /\ err' = r.err
           /\ status' = IF r.err = NoErr THEN "running" ELSE "panicked"
    /\ asked' = asked + 1
    /\ UNCHANGED <<current_token, peek_token, stack, ret, advances, calls>>

Next == NextToken

Spec == Init /\ [][Next]_vars
SpecLet == InitLet /\ [][Next]_vars
SpecNum == InitNum /\ [][Next]_vars
SpecComment == InitComment /\ [][Next]_vars

-----------------------------------------------------------------------------
(* The caller of a Parser *)

\* the caller calls parse() at most MaxParseCalls times
MaxParseCalls == 2

\* the machine the variables hold
Mach ==
    [lexer |-> lexer, current_token |-> current_token, peek_token |-> peek_token,
     stack |-> stack, ret |-> ret, advances |-> advances, asked |-> asked,
     calls |-> calls, status |-> status, err |-> err]

Becomes(m) ==
    /\ lexer' = m.lexer
    /\ current_token' = m.current_token
    /\ peek_token' = m.peek_token
    /\ stack' = m.stack
    /\ ret' = m.ret
    /\ advances' = m.advances
    /\ asked' = m.asked
    /\ calls' = m.calls
    /\ status' = m.status
    /\ err' = m.err
    /\ tok' = tok

\* the Parser is inside parse(), at `place`
At(place) == status = "running" /\ stack # <<>> /\ Place(Mach) = place

\* Parser::new(lexer)
ParserNew ==
    /\ status = "running" /\ current_token = NoTok /\ asked = 0
    /\ Becomes(Parser_new(lexer))

\* parser.parse()
ParseCall ==
    /\ status = "running" /\ current_token # NoTok /\ stack = <<>>
    /\ calls < MaxParseCalls
    /\ Becomes(parse_enter(Mach))

ParseLoop == At(<<"parse", "loop", "">>) /\ Becomes(parse_loop(Mach))
ParsePush == At(<<"parse", "push", "">>) /\ Becomes(parse_push(Mach))
ParseFunctionHead ==
    At(<<"parse_function", "start", "">>) /\ Becomes(parse_function_head(Mach))
ParseFunctionBuild ==
    At(<<"parse_function", "body", "">>) /\ Becomes(parse_function_build(Mach))
BodyLambda ==
    At(<<"parse_function_body", "start", "lambda">>) /\ Becomes(body_lambda(Mach))
BodyLiteral ==
    At(<<"parse_function_body", "start", "literal">>) /\ Becomes(body_literal(Mach))
BodyBlockOpen ==
    At(<<"parse_function_body", "start", "block">>) /\ Becomes(body_block_open(Mach))
BodyExpr ==
    At(<<"parse_function_body", "start", "expr">>) /\ Becomes(body_expr(Mach))
BodyLambdaReturn ==
    At(<<"parse_function_body", "lambda", "">>) /\ Becomes(body_lambda_return(Mach))
BodyExprReturn ==
    At(<<"parse_function_body", "expr", "">>) /\ Becomes(body_expr_return(Mach))
BlockClose ==
    At(<<"parse_function_body", "block_loop", "close">>) /\ Becomes(block_close(Mach))
BlockFunction ==
    At(<<"parse_function_body", "block_loop", "function">>)
    /\ Becomes(block_function(Mach))
BlockExpr ==
    At(<<"parse_function_body", "block_loop", "expr">>) /\ Becomes(block_expr(Mach))
BlockPushFunction ==
    At(<<"parse_function_body", "block_fn", "">>) /\ Becomes(block_push_function(Mach))
BlockPushExpr ==
    At(<<"parse_function_body", "block_expr", "">>) /\ Becomes(block_push_expr(Mach))
LambdaParam ==
    At(<<"parse_lambda_style", "param", "">>) /\ Becomes(lambda_param(Mach))
LambdaReturn ==
    At(<<"parse_lambda_style", "expr", "">>) /\ Becomes(lambda_return(Mach))
ExprIdent == At(<<"parse_expr", "start", "ident">>) /\ Becomes(expr_ident(Mach))
ExprLiteral == At(<<"parse_expr", "start", "literal">>) /\ Becomes(expr_literal(Mach))
ExprUnexpected ==
    At(<<"parse_expr", "start", "unexpected">>) /\ Becomes(expr_unexpected(Mach))
ArgsNext == At(<<"parse_expr", "arg_loop", "next">>) /\ Becomes(args_next(Mach))
ArgsClose == At(<<"parse_expr", "arg_loop", "close">>) /\ Becomes(args_close(Mach))
ArgsPush == At(<<"parse_expr", "arg", "">>) /\ Becomes(args_push(Mach))

NextParser ==
    \/ ParserNew \/ ParseCall
    \/ ParseLoop \/ ParsePush
    \/ ParseFunctionHead \/ ParseFunctionBuild
    \/ BodyLambda \/ BodyLiteral \/ BodyBlockOpen \/ BodyExpr
    \/ BodyLambdaReturn \/ BodyExprReturn
    \/ BlockClose \/ BlockFunction \/ BlockExpr
    \/ BlockPushFunction \/ BlockPushExpr
    \/ LambdaParam \/ LambdaReturn
    \/ ExprIdent \/ ExprLiteral \/ ExprUnexpected
    \/ ArgsNext \/ ArgsClose \/ ArgsPush

SpecParser == InitParser /\ [][NextParser]_vars

-----------------------------------------------------------------------------
(* What the claims speak of *)

\* the caller has just made a next_token call
Called == asked' = asked + 1

\* the position of the first significant character
Significant(L) == skip_whitespace(L).position

RECURSIVE RunEnd(_, _, _)
\* the end of the maximal run of characters of `class` that starts at p
RunEnd(inp, p, class) ==
    IF p < Len(inp) /\ inp[p + 1] \in class THEN RunEnd(inp, p + 1, class) ELSE p

WordChars == LowerLetters \cup UpperLetters \cup Digits \cup {"_"}

\* 1 plus the number of newlines before position p
LineOf(inp, p) == 1 + Cardinality({i \in 1..p : inp[i] = NL})
\* 1 plus the number of characters since the last newline before position p
ColumnOf(inp, p) ==
    LET nls == {i \in 1..p : inp[i] = NL}
    IN  IF nls = {} THEN 1 + p
        ELSE 1 + p - (CHOOSE i \in nls : \A j \in nls : j <= i)

-----------------------------------------------------------------------------
(* C1 *)

\* C1: once next_token has returned EOI, every later call returns EOI and leaves
\* position, line and column as they are; and every text that lexes without a
\* panic reaches EOI after finitely many calls: a call that returns another
\* token moves the cursor forward, so that EOI is returned by call number
\* Len(input) + 1 at the latest.
C1_EndOfStream ==
    [][Called =>
         /\ tok = EOI => (tok' = EOI /\ lexer' = lexer)
         /\ (status' = "running" /\ tok' # EOI) => lexer'.position > lexer.position
         /\ lexer'.position <= Len(lexer.input)
         /\ asked' > Len(lexer.input) => (tok' = EOI \/ status' = "panicked")]_vars

\* EOI was returned for a text with a token in it, and next_token was called again
C1_Witness ==
    /\ tok = EOI
    /\ asked = CallBudget(lexer)
    /\ \E i \in 1..Len(lexer.input) : lexer.input[i] = "a"
    /\ lexer.position = Len(lexer.input)

-----------------------------------------------------------------------------
(* C4 *)

\* C4: every unrecognized-character panic of next_token carries the line and the
\* column of the offending character itself.
C4_ErrorPosition ==
    [][(Called /\ err'.kind = "UnexpectedChar") =>
         LET p == Significant(lexer)
         IN  /\ err'.ch = lexer.input[p + 1]
             /\ err'.line = LineOf(lexer.input, p)
             /\ err'.column = ColumnOf(lexer.input, p)]_vars

-----------------------------------------------------------------------------
(* C5 *)

\* C5: the word `let` yields the non-linear keyword exactly when the very next
\* character is `!`, which is then consumed; `let` followed by anything else is
\* the plain keyword; a `!` that starts a token is an unrecognized character; a
\* longer word that starts with `let` never yields the non-linear keyword.
C5_LetBang ==
    [][Called =>
         LET inp == lexer.input
             p == Significant(lexer)
             isWord == p < Len(inp) /\ is_ascii_alphabetic(inp[p + 1])
             e == RunEnd(inp, p, WordChars)
             isLet == isWord /\ SubSeq(inp, p + 1, e) = Chars("let")
             bang == e < Len(inp) /\ inp[e + 1] = "!"
         IN  /\ (tok' = Punct("KeywordLetBang")) <=> (isLet /\ bang)
             /\ (isLet /\ bang) => lexer'.position = e + 1
             /\ (isLet /\ ~bang) => (tok' = Punct("KeywordLet") /\ lexer'.position = e)
             /\ (p < Len(inp) /\ inp[p + 1] = "!") =>
                    (status' = "panicked" /\ err'.kind = "UnexpectedChar"
                     /\ err'.ch = "!")]_vars

\* `let!` was read as one token, with more text behind it
C5_Witness ==
    /\ tok = Punct("KeywordLetBang")
    /\ lexer.position < Len(lexer.input)
    /\ lexer.input[lexer.position] = "!"

-----------------------------------------------------------------------------
(* C7 *)

\* one numeral for each value: no leading zeros
Canon(run) == StripLeadingZeros(run)
\* one decimal numeral for each value: no trailing fractional zeros either
Decimal(run, frac) == Canon(run) \o <<".">> \o StripTrailingZeros(frac)

\* what C7 says of a call that starts at a digit; `fits` tells the runs whose
\* integer literal is promised
NumberClaim(fits(_)) ==
    Called =>
      LET inp == lexer.input
          p == Significant(lexer)
          e == RunEnd(inp, p, Digits)
          run == SubSeq(inp, p + 1, e)
          dot == e < Len(inp) /\ inp[e + 1] = "."
          f == RunEnd(inp, e + 1, Digits)
      IN  (p < Len(inp) /\ is_ascii_digit(inp[p + 1])) =>
            /\ (~dot /\ fits(run)) =>
                 /\ status' = "running"
                 /\ tok' = Tok("IntegerLiteral", Canon(run))
                 /\ lexer'.position = e
            /\ (~dot /\ ~fits(run)) => status' = "panicked"
            /\ dot =>
                 /\ status' = "running"
                 /\ tok'.t = "FloatLiteral"
                 /\ lexer'.position = f
                 /\ (f = e + 1 => tok'.v = Decimal(run, <<"0">>))

AnyRun(run) == TRUE

\* C7 as stated: every maximal run of digits not followed by `.` yields an
\* integer literal with its value, every run followed by `.` a float literal,
\* `42.` being 42.0.
C7_NumberClassification == [][NumberClaim(AnyRun)]_vars

\* C7 as amended: the integer literal is promised for the runs whose value is at
\* most i32::MAX; next_token panics on the others.
C7_NumberClassification_I32 == [][NumberClaim(FitsI32)]_vars

\* the text `42.` was read to its end as one float literal, equal to 42.0
C7_Witness ==
    /\ lexer.input = <<"4", "2", ".">>
    /\ tok = Tok("FloatLiteral", Decimal(<<"4", "2">>, <<"0">>))
    /\ lexer.position = Len(lexer.input)

-----------------------------------------------------------------------------
(* C6 *)

RECURSIVE Tokens(_)
\* what a consumer that calls next_token until EOI or a panic is handed: the
\* tokens, then EOI or the unrecognized character
Tokens(L) ==
    LET r == next_token(L)
    IN  IF r.err # NoErr THEN <<Tok(r.err.kind, <<r.err.ch>>)>>
        ELSE IF r.tok = EOI THEN <<EOI>>
        ELSE <<r.tok>> \o Tokens(r.lexer)

\* the string literal that next_token read from L to M has no closing quote
OpenString(L, M) ==
    M.position - Significant(L) < 2 \/ M.input[M.position] # "\""

RECURSIVE Spans(_)
\* where each token that is left to read starts and ends; a string literal that
\* is not closed is still open behind the end of the text
Spans(L) ==
    LET r == next_token(L)
    IN  IF r.err # NoErr \/ r.tok = EOI THEN <<>>
        ELSE <<[tok |-> r.tok, start |-> Significant(L),
                end |-> IF r.tok.t = "StringLiteral" /\ OpenString(L, r.lexer)
                        THEN Len(L.input) + 1
                        ELSE r.lexer.position]>>
             \o Spans(r.lexer)

\* the text with the line `#` body newline put in at position p
InsertComment(inp, p, body) ==
    SubSeq(inp, 1, p) \o <<"#">> \o body \o <<NL>> \o SubSeq(inp, p + 1, Len(inp))

\* the rest of a comment line: any characters other than newline
CommentBodies == {<<>>, <<"a">>, <<"#", SP>>, <<"\"">>, <<"a", "!">>}

\* p lies between two of the tokens left to read: inside none of them
BetweenTokens(L, p) ==
    /\ p \in L.position..Len(L.input)
    /\ \A i \in DOMAIN Spans(L) : ~(Spans(L)[i].start < p /\ p < Spans(L)[i].end)

\* p lies in a comment that is already there: behind a `#` of the same gap, with
\* no newline between the two
InComment(L, p) ==
    LET ends == {L.position} \cup
                {Spans(L)[i].end : i \in {j \in DOMAIN Spans(L) : Spans(L)[j].end <= p}}
        gap == CHOOSE g \in ends : \A h \in ends : h <= g
    IN  \E q \in (gap + 1)..p :
            /\ L.input[q] = "#"
            /\ \A r \in (q + 1)..p : L.input[r] # NL

\* the tokens left to read stay the same when the comment line is put in at p
Transparent(L, p) ==
    \A body \in CommentBodies :
        Tokens([L EXCEPT !.input = InsertComment(L.input, p, body)]) = Tokens(L)

\* a token that is left to read ends before p and another starts behind p
TokensAround(L, p) ==
    /\ \E i \in DOMAIN Spans(L) : Spans(L)[i].end <= p
    /\ \E i \in DOMAIN Spans(L) : p <= Spans(L)[i].start

\* C6 as stated: a comment line put in at any position between two tokens leaves
\* the token sequence as it was.
C6_CommentTransparent ==
    \A p \in 0..Len(lexer.input) :
        (status = "running" /\ BetweenTokens(lexer, p) /\ TokensAround(lexer, p))
            => Transparent(lexer, p)

\* C6 as amended: so it does at every position between two tokens that does not
\* lie in a comment that is already there; the positions before the first token
\* and behind the last one count as well.
C6_CommentTransparent_Outside ==
    \A p \in 0..Len(lexer.input) :
        (status = "running" /\ BetweenTokens(lexer, p) /\ ~InComment(lexer, p))
            => Transparent(lexer, p)

\* a token has been read, a comment and a further token are left to read, and
\* there is a position behind that comment's newline to put a line in
C6_Witness ==
    /\ tok = Tok("Ident", <<"a">>)
    /\ lexer.position = 1
    /\ lexer.input = <<"a", "#", NL, "a">>
    /\ BetweenTokens(lexer, 3) /\ ~InComment(lexer, 3) /\ Transparent(lexer, 3)
    /\ BetweenTokens(lexer, 2) /\ InComment(lexer, 2)

-----------------------------------------------------------------------------
(* What the claims about the Parser speak of *)

\* parse() has returned; ret holds the functions
Returned == status = "running" /\ stack = <<>> /\ calls >= 1

\* the Lexer the Parser was constructed from
Fresh == Lexer_new(lexer.input)

RECURSIVE NthToken(_, _)
\* token number k (from 0) of the Lexer's stream, EOI repeated behind the end
NthToken(L, k) ==
    LET r == next_token(L)
    IN  IF k = 0 THEN r.tok ELSE NthToken(r.lexer, k - 1)

BindingKeywords == {Punct("KeywordLet"), Punct("KeywordLetBang")}

-----------------------------------------------------------------------------
(* C2 *)

\* C2: a top-level definition begins with a binding keyword: when parse() returns
\* functions, the first token of the text is `let` or `let!`, and the first
\* function is a LinFunc for `let` and a NonlinFunc for `let!`.  (Stated for the
\* first definition of the text.)
C2_BindingKeyword ==
    (Returned /\ Len(ret) > 0) =>
        /\ NthToken(Fresh, 0) \in BindingKeywords
        /\ ret[1].tag = IF NthToken(Fresh, 0) = Punct("KeywordLetBang")
                        THEN "NonlinFunc" ELSE "LinFunc"

-----------------------------------------------------------------------------
(* C3 *)

\* the `{` and `}` of ts[i..j]: how many more are opened than closed
Depth(ts, i, j) ==
    Cardinality({k \in i..j : ts[k] = Punct("LeftCurly")})
    - Cardinality({k \in i..j : ts[k] = Punct("RightCurly")})

\* the `{` that open a block body: those that follow a `=`
BlockOpens(ts) ==
    {i \in 2..Len(ts) : ts[i] = Punct("LeftCurly") /\ ts[i - 1] = Punct("Equal")}

\* a `{` that opens a block body has no matching `}` before the end of the text
EndsInsideBlock(ts) ==
    \E i \in BlockOpens(ts) : \A j \in (i + 1)..Len(ts) : Depth(ts, i, j) # 0

\* C3: parse() never returns for a text that ends inside a block body.
C3_PrematureEnd == Returned => ~EndsInsideBlock(Tokens(Fresh))

\* the block loop met the end of the text, after a nested binding, and
\* expect(RightCurly) panicked
C3_Witness ==
    /\ status = "panicked" /\ err.kind = "ExpectedToken"
    /\ current_token = EOI
    /\ stack # <<>>
    /\ stack[Len(stack)].fn = "parse_function_body"
    /\ stack[Len(stack)].pc = "block_loop"
    /\ Len(stack[Len(stack)].body) = 1
    /\ EndsInsideBlock(Tokens(Fresh))

-----------------------------------------------------------------------------
(* C8 *)

RECURSIVE LambdaShaped(_)
\* in each Function of fs, at any depth: params only with an empty body list and
\* exactly one return expression
LambdaShaped(fs) ==
    \A i \in DOMAIN fs :
        /\ fs[i].params # <<>> => (fs[i].body = <<>> /\ Len(fs[i].return_expr) = 1)
        /\ LambdaShaped(fs[i].body)

\* C8: parse_function_body parses lambda-style exactly when the current token is
\* an identifier and the lookahead is `:`; what it returns has params only when
\* it did, and then an empty body list and exactly one return expression; so
\* does every Function that parse() returns, at any depth.
C8_ParamsOnlyFromLambda ==
    [][(status = "running" /\ status' = "running" /\ stack # <<>>) =>
         LET f == stack[Len(stack)]
         IN  /\ (f.fn = "parse_function_body" /\ f.pc = "start") =>
                    ((Len(stack') = Len(stack) + 1
                      /\ stack'[Len(stack')].fn = "parse_lambda_style")
                     <=> (current_token.t = "Ident"
                          /\ peek_token = <<Punct("Colon")>>))
             /\ (f.fn = "parse_function_body" /\ Len(stack') = Len(stack) - 1) =>
                    IF f.pc = "lambda"
                    THEN ret'.body = <<>> /\ Len(ret'.return_expr) = 1
                    ELSE ret'.params = <<>>
             /\ (f.fn = "parse" /\ stack' = <<>>) => LambdaShaped(ret')]_vars

\* parse() returned a function with a block body that holds a lambda-style one
C8_Witness ==
    /\ Returned /\ Len(ret) = 1
    /\ ret[1].params = <<>>
    /\ Len(ret[1].body) = 2
    /\ ret[1].body[2].params # <<>>
    /\ ret[1].body[2].body = <<>>

-----------------------------------------------------------------------------
(* C9 *)

\* the tokens of the text with their places
TextSpans == Spans(Fresh)

\* how many `(` are open before token i
ParenDepth(sp, i) ==
    Cardinality({k \in 1..(i - 1) : sp[k].tok = Punct("LeftParen")})
    - Cardinality({k \in 1..(i - 1) : sp[k].tok = Punct("RightParen")})

\* the commas of the argument lists
ArgCommas(sp) ==
    {i \in DOMAIN sp : sp[i].tok = Punct("Comma") /\ ParenDepth(sp, i) > 0}

\* the tokens of the argument lists that end an argument and have the next
\* argument right behind them, no comma between
ArgGaps(sp) ==
    {i \in 1..(Len(sp) - 1) :
        /\ ParenDepth(sp, i + 1) > 0
        /\ \/ IsLiteral(sp[i].tok)
           \/ sp[i].tok = Punct("RightParen")
           \/ sp[i].tok.t = "Ident"
        /\ \/ IsLiteral(sp[i + 1].tok)
           \/ sp[i + 1].tok.t = "Ident"}

RECURSIVE Edit(_, _, _, _)
\* the text from character p on, the characters at `blanked` made blanks and a
\* comma put in behind each character at `commaAfter`
Edit(inp, p, blanked, commaAfter) ==
    IF p > Len(inp) THEN <<>>
    ELSE <<IF p \in blanked THEN SP ELSE inp[p]>>
         \o (IF p \in commaAfter THEN <<",">> ELSE <<>>)
         \o Edit(inp, p + 1, blanked, commaAfter)

\* the text with some commas of its argument lists taken out, or with commas
\* put in between adjacent arguments that have none
CommaVariants(sp, inp) ==
    {Edit(inp, 1, {sp[i].end : i \in S}, {}) : S \in SUBSET ArgCommas(sp)}
    \cup {Edit(inp, 1, {}, {sp[i].end : i \in G}) : G \in SUBSET ArgGaps(sp)}

\* C9: when parse() returns, it returns the same functions for the text with
\* commas between adjacent arguments taken out or put in; a comma is consumed
\* inside parse_expr only right after an argument, and the argument loop is left
\* only at `)`.
C9_PermissiveCommas ==
    [][(status = "running" /\ stack # <<>>) =>
         LET f == stack[Len(stack)]
         IN  /\ (f.fn = "parse" /\ calls = 1 /\ status' = "running" /\ stack' = <<>>) =>
                    \A v \in CommaVariants(TextSpans, lexer.input) :
                        /\ ParseText(v).status = "running"
                        /\ ParseText(v).ret = ret'
             /\ (f.fn = "parse_expr" /\ current_token = Punct("Comma")
                 /\ advances' > advances) => f.pc = "arg"
             /\ (f.fn = "parse_expr" /\ f.pc = "arg_loop" /\ status' = "running"
                 /\ Len(stack') = Len(stack) - 1) =>
                    current_token = Punct("RightParen")]_vars

\* parse() returned a call with two arguments for a text without any comma
C9_Witness ==
    /\ Returned /\ Len(ret) = 1
    /\ Len(ret[1].return_expr) = 1
    /\ ret[1].return_expr[1].e = "Call"
    /\ Len(ret[1].return_expr[1].args) = 2
    /\ \A i \in DOMAIN lexer.input : lexer.input[i] # ","

-----------------------------------------------------------------------------
(* C10 *)

\* the panics of the Parser itself, which leave its fields as the last
\* completed advance set them (a panic of next_token does not)
ParserPanics ==
    {"ExpectedToken", "ExpectedIdentifier", "ExpectedType", "ExpectedCommaOrArrow",
     "UnexpectedToken"}

\* C10: once the Parser is constructed, after every completed advance,
\* current_token and peek_token are tokens number k and k + 1 of the Lexer's
\* stream, k the number of completed advance calls, and the Lexer has been asked
\* for k + 2 tokens.
C10_Lookahead ==
    (current_token # NoTok /\ (status = "running" \/ err.kind \in ParserPanics)) =>
        /\ current_token = NthToken(Fresh, advances)
        /\ peek_token = <<NthToken(Fresh, advances + 1)>>
        /\ asked = advances + 2

\* parse() returned for `let f = 5`-like text: four advances, six tokens asked
\* for, EOI in both slots
C10_Witness ==
    /\ Returned
    /\ advances = 4 /\ asked = 6
    /\ current_token = EOI /\ peek_token = <<EOI>>
    /\ Len(ret) = 1

-----------------------------------------------------------------------------
(* C11 *)

\* the places where a turn of one of the four loops begins: the block loop
\* past its tests, the parameter loop, the argument loop past its test
LoopTurns ==
    {<<"parse_function_body", "block_loop", "function">>,
     <<"parse_function_body", "block_loop", "expr">>,
     <<"parse_lambda_style", "param", "">>,
     <<"parse_expr", "arg_loop", "next">>}

\* a turn of a loop begins; the top-level loop turns while the token is not EOI
AtLoopTurn ==
    /\ status = "running" /\ stack # <<>>
    /\ \/ Place(Mach) \in LoopTurns
       \/ Place(Mach) = <<"parse", "loop", "">> /\ current_token # EOI

RECURSIVE EndOfTurn(_, _, _)
\* the machine when the call at height h is back at the place f of its loop,
\* has returned, or has panicked
EndOfTurn(m, h, f) ==
    IF \/ m.status # "running"
       \/ Len(m.stack) < h
       \/ Len(m.stack) = h /\ Top(m).fn = f.fn /\ Top(m).pc = f.pc
    THEN m
    ELSE EndOfTurn(Step(m), h, f)

RECURSIVE RunFor(_, _)
\* parse() run for at most n steps
RunFor(m, n) ==
    IF m.status # "running" \/ m.stack = <<>> \/ n = 0 THEN m
    ELSE RunFor(Step(m), n - 1)

\* the steps parse() may take on a stream of n tokens, EOI counted: a call, a
\* return and a push for every token, and the entry and the exit of the loop
StepBudget(n) == 3 * n + 2

\* C11: parse() terminates.  Every turn of the top-level loop, the block loop,
\* the parameter loop and the argument loop ends with more tokens consumed
\* than it began with, or in a panic; the tokens consumed are tokens before
\* EOI; so parse() returns or panics within a number of steps linear in the
\* length of the token stream.  When it returns the current token is EOI, and
\* every further parse() call returns the empty sequence and consumes nothing.
C11_Terminates ==
    [][/\ AtLoopTurn =>
            LET e == EndOfTurn(Step(Mach), Len(stack), Top(Mach))
            IN  e.status = "panicked" \/ e.advances > advances
       /\ advances' >= advances
       /\ (current_token # NoTok /\ advances' > advances) =>
            /\ current_token # EOI
            /\ NthToken(Fresh, advances' - 1) # EOI
       /\ (stack = <<>> /\ stack' # <<>>) =>
            LET e == RunFor(Mach', StepBudget(Len(Tokens(Fresh))))
            IN  e.status = "panicked" \/ e.stack = <<>>
       /\ (stack # <<>> /\ stack' = <<>> /\ status' = "running") =>
            /\ current_token' = EOI
            /\ (calls >= 2 => ret' = <<>>)
            /\ LET again == RunParse(parse_enter(Mach'))
               IN  /\ again.status = "running" /\ again.stack = <<>>
                   /\ again.ret = <<>>
                   /\ again.advances = advances']_vars

\* the second parse() call returned the empty sequence, after the first one
\* went through all four loops: a block whose items are a binding with a
\* parameter and a call with an argument
C11_Witness ==
    /\ Returned /\ calls = 2 /\ ret = <<>>
    /\ current_token = EOI
    /\ LET ts == Tokens(Fresh)
       IN  /\ \E i \in DOMAIN ts : ts[i] = Punct("LeftCurly")
           /\ \E i \in DOMAIN ts : ts[i] = Punct("Colon")
           /\ \E i \in DOMAIN ts : ts[i] = Punct("LeftParen")

====
